---- MODULE Spec2Model ----
(***************************************************************************)
(* Model of first_order::parser::Parser (src/src/first_order/parser.rs):   *)
(* Parser::new compiles the embedded BNF grammar, with_parse_tree builds a *)
(* parser instance per call, takes the first derivation of the input and   *)
(* runs a callback on it, and parse runs Formula::parse_input as that      *)
(* callback.  Strings are sequences of one-character strings.              *)
(***************************************************************************)
EXTENDS Naturals, Sequences, FiniteSets, TLC

VARIABLES grammarSrc, pool, slots, parser, calls, nstarted

vars == <<grammarSrc, pool, slots, parser, calls, nstarted>>

(***************************************************************************)
(* Bounds of the model.                                                    *)
(***************************************************************************)
MaxCalls == 2

MaxDepth == 1

(***************************************************************************)
(* Grammar source text.  A text is a sequence of rule lines; a line has a  *)
(* left-hand non-terminal and a sequence of alternatives; an alternative   *)
(* is a sequence of terms, each a non-terminal <nt> or a literal 'lit'.    *)
(***************************************************************************)
NT(n) == [nt |-> n, lit |-> <<>>]

Lit(s) == [nt |-> "", lit |-> s]

Line(l, r) == [lhs |-> l, rhs |-> r]

Q == "\""

Alnum ==
    <<"A", "B", "C", "D", "E", "F", "G", "H", "I", "J", "K", "L", "M",
      "N", "O", "P", "Q", "R", "S", "T", "U", "V", "W", "X", "Y", "Z",
      "a", "b", "c", "d", "e", "f", "g", "h", "i", "j", "k", "l", "m",
      "n", "o", "p", "q", "r", "s", "t", "u", "v", "w", "x", "y", "z",
      "0", "1", "2", "3", "4", "5", "6", "7", "8", "9">>

AlnumAlts == [k \in 1..Len(Alnum) |-> <<Lit(<<Alnum[k]>>)>>]

StringRules ==
    << Line("string", << <<Lit(<<Q>>), NT("alphanumeric_seq"), Lit(<<Q>>)>> >>),
       Line("alphanumeric_seq",
            << <<NT("alphanumeric")>>,
               <<NT("alphanumeric"), NT("alphanumeric_seq")>> >>),
       Line("alphanumeric", AlnumAlts) >>

\* The grammar the `experiments` test compiles.
ExperimentsGrammar ==
    << Line("input", << <<NT("string")>>, <<NT("string"), Lit(<<"\n">>)>> >>) >>
    \o StringRules

Binary(kw) ==
    << Lit(kw \o <<" ", "(">>), NT("formula"), Lit(<<")", " ", "(">>),
       NT("formula"), Lit(<<")">>) >>

Quantifier(kw) ==
    << Lit(kw \o <<" ">>), NT("string"), Lit(<<" ", "(">>), NT("formula"),
       Lit(<<")">>) >>

\* The embedded grammar.bnf: the surface syntax of the formulas.
BNF_GRAMMAR ==
    << Line("formula",
            << <<NT("truth")>>, <<NT("relation")>>, <<NT("and")>>, <<NT("or")>>,
               <<NT("implies")>>, <<NT("exists")>>, <<NT("forall")>> >>),
       Line("truth", << <<Lit(<<"T">>)>>, <<Lit(<<"F">>)>> >>),
       Line("relation",
            << <<Lit(<<"R", "e", "l", " ">>), NT("string"), Lit(<<" ", "[", "]">>)>>,
               <<Lit(<<"R", "e", "l", " ">>), NT("string"), Lit(<<" ", "[">>),
                 NT("terms"), Lit(<<"]">>)>> >>),
       Line("terms",
            << <<NT("term")>>, <<NT("term"), Lit(<<",">>), NT("terms")>> >>),
       Line("term", << <<Lit(<<"V", "a", "r", " ">>), NT("string")>> >>),
       Line("and", << Binary(<<"A", "n", "d">>) >>),
       Line("or", << Binary(<<"O", "r">>) >>),
       Line("implies", << Binary(<<"I", "m", "p", "l", "i", "e", "s">>) >>),
       Line("exists", << Quantifier(<<"E", "x", "i", "s", "t", "s">>) >>),
       Line("forall", << Quantifier(<<"F", "o", "r", "a", "l", "l">>) >>) >>
    \o StringRules

\* Other texts a build could embed: one whose first input has two
\* derivations, one that uses a non-terminal no rule defines, and one that is
\* not a grammar (a rule without a right-hand side).
AmbiguousGrammar ==
    << Line("formula", << <<NT("truth")>>, <<NT("other")>> >>),
       Line("truth", << <<Lit(<<"T">>)>>, <<Lit(<<"F">>)>> >>),
       Line("other", << <<Lit(<<"T">>)>> >>) >>

IncompleteGrammar ==
    << Line("formula", << <<NT("truth")>>, <<NT("relation")>> >>),
       Line("truth", << <<Lit(<<"T">>)>>, <<Lit(<<"F">>)>> >>) >>

MalformedGrammar ==
    << Line("formula", << <<NT("truth")>> >>), Line("truth", << >>) >>

\* The text behind each name a build could embed.
GrammarTexts ==
    {"grammar.bnf", "experiments", "ambiguous", "incomplete", "malformed"}

Text(name) ==
    CASE name = "grammar.bnf" -> BNF_GRAMMAR
      [] name = "experiments" -> ExperimentsGrammar
      [] name = "ambiguous" -> AmbiguousGrammar
      [] name = "incomplete" -> IncompleteGrammar
      [] name = "malformed" -> MalformedGrammar

(***************************************************************************)
(* The bnf crate: Grammar::from_str, Grammar::build_parser and             *)
(* GrammarParser::parse_input.                                             *)
(***************************************************************************)
Ok(v) == [tag |-> "Ok", val |-> v, ctx |-> "", text |-> <<>>]

Err(c, t) == [tag |-> "Err", val |-> <<>>, ctx |-> c, text |-> t]

IsOk(r) == r.tag = "Ok"

WellFormedLine(l) ==
    /\ l.lhs # ""
    /\ Len(l.rhs) > 0
    /\ \A k \in 1..Len(l.rhs) : Len(l.rhs[k]) > 0

\* str::parse::<Grammar>: a syntax check of the text, rule by rule.
GrammarFromStr(text) ==
    IF Len(text) > 0 /\ \A k \in 1..Len(text) : WellFormedLine(text[k])
    THEN Ok(text)
    ELSE Err("bnf: parse error", <<>>)

Defined(g) == {g[k].lhs : k \in 1..Len(g)}

Referenced(g) ==
    UNION { UNION { {g[k].rhs[a][t].nt : t \in 1..Len(g[k].rhs[a])} :
                    a \in 1..Len(g[k].rhs) } :
            k \in 1..Len(g) } \ {""}

\* Grammar::build_parser: every referenced non-terminal must have a rule.
BuildParser(g) ==
    IF Referenced(g) \subseteq Defined(g)
    THEN Ok(g)
    ELSE Err("bnf: undefined nonterminal", <<>>)

Alternatives(g, n) ==
    LET k == CHOOSE j \in 1..Len(g) :
                 g[j].lhs = n /\ \A h \in 1..(j - 1) : g[h].lhs # n
    IN  g[k].rhs

Leaf(s) == [label |-> "", alt |-> 0, lit |-> s, kids |-> <<>>]

Node(n, a, ks) == [label |-> n, alt |-> a, lit |-> <<>>, kids |-> ks]

Matches(lit, s, i) ==
    /\ i + Len(lit) - 1 <= Len(s)
    /\ \A k \in 1..Len(lit) : s[i + k - 1] = lit[k]

RECURSIVE ConcatRange(_, _, _)
ConcatRange(ss, lo, hi) ==
    IF lo > hi THEN <<>>
    ELSE IF lo = hi THEN ss[lo]
    ELSE LET mid == (lo + hi) \div 2
         IN  ConcatRange(ss, lo, mid) \o ConcatRange(ss, mid + 1, hi)

Concat(ss) == ConcatRange(ss, 1, Len(ss))

\* Every way a term (MatchTerm) or an alternative (MatchAlt) matches the
\* input from position i.  An alternative is matched term by term, each
\* partial match extended by the next term (alternatives have at most five
\* terms).  A node records which alternative of its rule derived it.
RECURSIVE MatchTerm(_, _, _, _)
MatchAlt(g, alt, s, i) ==
    LET Extend(ps, k) ==
            IF k > Len(alt) THEN ps
            ELSE UNION { { [kids |-> Append(p.kids, h.tree), next |-> h.next] :
                           h \in MatchTerm(g, alt[k], s, p.next) } : p \in ps }
        p1 == Extend({ [kids |-> <<>>, next |-> i] }, 1)
        p2 == Extend(p1, 2)
        p3 == Extend(p2, 3)
        p4 == Extend(p3, 4)
    IN  IF \/ p1 = {}
           \/ p2 = {}
           \/ p3 = {}
           \/ p4 = {}
        THEN {}
        ELSE Extend(p4, 5)

\* An alternative that starts with a literal the input does not have at i
\* matches in no way.
Viable(alt, s, i) == alt[1].nt # "" \/ Matches(alt[1].lit, s, i)

MatchTerm(g, t, s, i) ==
    IF t.nt = ""
    THEN IF Matches(t.lit, s, i)
         THEN { [tree |-> Leaf(t.lit), next |-> i + Len(t.lit)] }
         ELSE {}
    ELSE LET alts == Alternatives(g, t.nt)
         IN  UNION { { [tree |-> Node(t.nt, a, m.kids), next |-> m.next] :
                       m \in MatchAlt(g, alts[a], s, i) } :
                     a \in {k \in 1..Len(alts) : Viable(alts[k], s, i)} }

\* The order in which the derivations are yielded: by the alternatives taken,
\* node by node in pre-order, earlier alternatives first.
RECURSIVE AltPath(_)
AltPath(t) ==
    <<t.alt>> \o Concat([k \in 1..Len(t.kids) |-> AltPath(t.kids[k])])

PathBefore(p, q) ==
    \E k \in 1..Len(p) :
        /\ k <= Len(q)
        /\ p[k] < q[k]
        /\ \A j \in 1..(k - 1) : p[j] = q[j]

RECURSIVE InOrder(_)
InOrder(ts) ==
    IF ts = {} THEN <<>>
    ELSE LET t == CHOOSE u \in ts :
                      \A v \in ts \ {u} : PathBefore(AltPath(u), AltPath(v))
         IN  <<t>> \o InOrder(ts \ {t})

\* GrammarParser::parse_input: the derivations of the whole input from the
\* first rule's non-terminal, as the iterator yields them.
ParseInput(g, s) ==
    InOrder({ m.tree : m \in { n \in MatchTerm(g, NT(g[1].lhs), s, 1) :
                                 n.next = Len(s) + 1 } })

(***************************************************************************)
(* The AST builder, Formula::parse_input: a dispatch on the label of the   *)
(* parse-tree node, recursing into the children.                           *)
(***************************************************************************)
True == [op |-> "True", name |-> <<>>, terms |-> <<>>, subs |-> <<>>]

False == [op |-> "False", name |-> <<>>, terms |-> <<>>, subs |-> <<>>]

Relation(n, ts) == [op |-> "Rel", name |-> n, terms |-> ts, subs |-> <<>>]

Connective(o, l, r) == [op |-> o, name |-> <<>>, terms |-> <<>>, subs |-> <<l, r>>]

Quantified(o, x, b) == [op |-> o, name |-> x, terms |-> <<>>, subs |-> <<b>>]

Var(n) == [kind |-> "Var", name |-> n]

StructuralError(t) == Err("Unexpected parse tree node", <<t.label>>)

RECURSIVE TextOf(_)
TextOf(t) ==
    IF t.label = "" THEN t.lit
    ELSE Concat([k \in 1..Len(t.kids) |-> TextOf(t.kids[k])])

\* A quoted name: the quotes only demarcate, nothing is unescaped.
NameOf(t) ==
    LET txt == TextOf(t)
    IN  IF /\ t.label = "string"
           /\ Len(txt) >= 2
           /\ txt[1] = Q
           /\ txt[Len(txt)] = Q
        THEN Ok(SubSeq(txt, 2, Len(txt) - 1))
        ELSE StructuralError(t)

TermOf(t) ==
    IF t.label = "term" /\ Len(t.kids) = 2
    THEN LET n == NameOf(t.kids[2])
         IN  IF IsOk(n) THEN Ok(Var(n.val)) ELSE n
    ELSE StructuralError(t)

RECURSIVE TermsOf(_)
TermsOf(t) ==
    IF t.label = "terms" /\ Len(t.kids) \in {1, 3}
    THEN LET h == TermOf(t.kids[1])
         IN  IF ~IsOk(h) THEN h
             ELSE IF Len(t.kids) = 1 THEN Ok(<<h.val>>)
             ELSE LET r == TermsOf(t.kids[3])
                  IN  IF IsOk(r) THEN Ok(<<h.val>> \o r.val) ELSE r
    ELSE StructuralError(t)

OpOf(label) ==
    CASE label = "and" -> "And"
      [] label = "or" -> "Or"
      [] label = "implies" -> "Implies"
      [] label = "exists" -> "Exists"
      [] label = "forall" -> "Forall"

RECURSIVE Formula_parse_input(_)
Formula_parse_input(t) ==
    CASE t.label = "formula" /\ Len(t.kids) = 1 ->
            Formula_parse_input(t.kids[1])
      [] t.label = "truth" /\ Len(t.kids) = 1 /\ t.kids[1].lit = <<"T">> ->
            Ok(True)
      [] t.label = "truth" /\ Len(t.kids) = 1 /\ t.kids[1].lit = <<"F">> ->
            Ok(False)
      [] t.label = "relation" /\ Len(t.kids) = 3 ->
            LET n == NameOf(t.kids[2])
            IN  IF IsOk(n) THEN Ok(Relation(n.val, <<>>)) ELSE n
      [] t.label = "relation" /\ Len(t.kids) = 5 ->
            LET n == NameOf(t.kids[2])
                ts == TermsOf(t.kids[4])
            IN  IF ~IsOk(n) THEN n
                ELSE IF ~IsOk(ts) THEN ts
                ELSE Ok(Relation(n.val, ts.val))
      [] t.label \in {"and", "or", "implies"} /\ Len(t.kids) = 5 ->
            LET l == Formula_parse_input(t.kids[2])
                r == Formula_parse_input(t.kids[4])
            IN  IF ~IsOk(l) THEN l
                ELSE IF ~IsOk(r) THEN r
                ELSE Ok(Connective(OpOf(t.label), l.val, r.val))
      [] t.label \in {"exists", "forall"} /\ Len(t.kids) = 5 ->
            LET x == NameOf(t.kids[2])
                b == Formula_parse_input(t.kids[4])
            IN  IF ~IsOk(x) THEN x
                ELSE IF ~IsOk(b) THEN b
                ELSE Ok(Quantified(OpOf(t.label), x.val, b.val))
      [] OTHER -> StructuralError(t)

(***************************************************************************)
(* Input strings.                                                          *)
(***************************************************************************)
In_T ==
    <<"T">>

In_AndTT ==
    <<"A", "n", "d", " ", "(", "T", ")", " ", "(", "T", ")">>

In_ExistsT ==
    <<"E", "x", "i", "s", "t", "s", " ", "\"", "x", "\"", " ", "(", "T", ")">>

In_RelDx ==
    <<"R", "e", "l", " ", "\"", "D", "\"", " ", "[", "V", "a", "r", " ", "\"",
      "x", "\"", "]">>

In_ForallF ==
    <<"F", "o", "r", "a", "l", "l", " ", "\"", "y", "\"", " ", "(", "F", ")">>

In_ForallRel ==
    <<"F", "o", "r", "a", "l", "l", " ", "\"", "y", "\"", " ", "(", "R", "e",
      "l", " ", "\"", "D", "\"", " ", "[", "V", "a", "r", " ", "\"", "y", "\"",
      "]", ")">>

In_Drinker ==
    <<"E", "x", "i", "s", "t", "s", " ", "\"", "x", "\"", " ", "(", "I", "m",
      "p", "l", "i", "e", "s", " ", "(", "R", "e", "l", " ", "\"", "D", "\"",
      " ", "[", "V", "a", "r", " ", "\"", "x", "\"", "]", ")", " ", "(", "F",
      "o", "r", "a", "l", "l", " ", "\"", "y", "\"", " ", "(", "R", "e", "l",
      " ", "\"", "D", "\"", " ", "[", "V", "a", "r", " ", "\"", "y", "\"", "]",
      ")", ")", ")">>

GoodInputs ==
    {In_T, In_AndTT, In_ExistsT, In_RelDx, In_ForallF, In_ForallRel, In_Drinker}

\* The input of the `experiments` test.
In_Ala == <<Q, "A", "l", "a", Q, "\n">>

BinaryStr(kw, a, b) ==
    kw \o <<" ", "(">> \o a \o <<")", " ", "(">> \o b \o <<")">>

\* "And (" + a + ") (" + b + ")"
AndStr(a, b) ==
    <<"A", "n", "d", " ", "(">> \o a \o <<")", " ", "(">> \o b \o <<")">>

QuantStr(kw, x, a) == kw \o <<" ">> \o x \o <<" ", "(">> \o a \o <<")">>

Connectives == {<<"A", "n", "d">>, <<"I", "m", "p", "l", "i", "e", "s">>}

Atoms == {In_T, <<"F">>, In_RelDx}

\* Formula strings nested at most d deep, one operand of a connective an atom.
RECURSIVE Formulas(_)
Formulas(d) ==
    IF d = 0 THEN Atoms
    ELSE LET fs == Formulas(d - 1)
         IN  fs \cup {BinaryStr(kw, a, b) : kw \in Connectives, a \in fs, b \in Atoms}
                \cup {BinaryStr(kw, a, b) : kw \in Connectives, a \in Atoms, b \in fs}
                \cup {QuantStr(<<"E", "x", "i", "s", "t", "s">>, <<Q, "x", Q>>, a) :
                        a \in fs}

Valid == Formulas(MaxDepth)

RemoveAt(s, R) ==
    LET kept == SelectSeq([i \in 1..Len(s) |-> <<i, s[i]>>],
                          LAMBDA p : p[1] \notin R)
    IN  [k \in 1..Len(kept) |-> kept[k][2]]

Count(s, ch) == Cardinality({i \in 1..Len(s) : s[i] = ch})

\* Mismatched parentheses: one parenthesis of a formula removed, or one added.
Mismatched ==
    UNION { {RemoveAt(s, {i}) : i \in {j \in 1..Len(s) : s[j] \in {"(", ")"}}} :
            s \in Valid }
    \cup {s \o <<")">> : s \in Valid} \cup {<<"(">> \o s : s \in Valid}

\* Keywords that are not connectives of the surface syntax.
UnknownKeywords == {<<"X", "o", "r">>, <<"a", "n", "d">>, <<"N", "a", "n", "d">>}

UnknownConnective ==
    {BinaryStr(kw, a, b) : kw \in UnknownKeywords, a \in Atoms, b \in Atoms}
    \cup {AndStr(BinaryStr(kw, In_T, In_T), a) : kw \in UnknownKeywords, a \in Valid}

\* Unquoted names: the j-th quoted name of a formula without its quotes.
QuotePositions(s) == {i \in 1..Len(s) : s[i] = Q}

Rank(s, i) == Cardinality({j \in QuotePositions(s) : j <= i})

Unquoted ==
    UNION { {RemoveAt(s, {i \in QuotePositions(s) : Rank(s, i) \in {2 * j - 1, 2 * j}}) :
               j \in 1..(Count(s, Q) \div 2)} :
            s \in Valid }

Rejected == Mismatched \cup UnknownConnective \cup Unquoted

\* The operands of the compositions: formulas and strings that are none.
Operands == Valid \cup {<<"T", "T">>, <<"R", "e", "l", " ", "D">>, <<>>}

Compositions ==
    {AndStr(a, b) : a \in Operands, b \in Atoms \cup {<<"T", "T">>}}
    \cup {AndStr(a, b) : a \in Atoms \cup {<<"T", "T">>}, b \in Operands}

FormulaPool == GoodInputs \cup Rejected \cup Compositions

SmallPool == {In_T, <<"F">>, In_Ala}

Pool(name) == IF name = "formulas" THEN FormulaPool ELSE SmallPool

(***************************************************************************)
(* Parser: the state of one Parser and of the calls made on it.            *)
(*   grammarSrc  which text the build embeds as BNF_GRAMMAR: Text(..)      *)
(*   pool        which strings the callers pass as `formula`: Pool(pool)   *)
(*   slots       the identities of the calls                               *)
(*   parser      the result of Parser::new, once it has run                *)
(*   calls       per call: its arguments, its position in with_parse_tree, *)
(*               its locals `parser` and `parse_tree`, what the callback   *)
(*               was given, what with_parse_tree returned (inner), the     *)
(*               result, and whether another call ran during this one      *)
(*   nstarted    how many calls have been started                          *)
(***************************************************************************)
None == [tag |-> "None", val |-> <<>>, ctx |-> "", text |-> <<>>]

NoTree == Leaf(<<>>)

Unit == <<>>

Idle ==
    [pc |-> "idle", op |-> "", f |-> "", input |-> <<>>,
     built |-> None, parse_tree |-> NoTree,
     fcalls |-> 0, farg |-> NoTree, inner |-> None, result |-> None,
     overlapped |-> FALSE]

\* The callbacks the callers pass: Formula::parse_input (by parse) and |_| ().
Callbacks == {"parse_input", "unit"}

Apply(f, tree) ==
    IF f = "parse_input" THEN Formula_parse_input(tree) ELSE Unit

\* Iterator::next on the derivations.
Last(ds) == IF Len(ds) = 0 THEN None ELSE Ok(ds[Len(ds)])

Second(ds) == IF Len(ds) < 2 THEN None ELSE Ok(ds[2])

Rotating(ds) == IF Len(ds) = 0 THEN None ELSE Ok(ds[(nstarted % Len(ds)) + 1])

First(ds) == IF Len(ds) = 0 THEN None ELSE Ok(ds[1])

\* parser.parse_input(formula): the text handed to the grammar is the
\* caller's formula, whole.
SubjectTrimmed(formula) ==
    IF Len(formula) > 1 /\ formula[Len(formula)] = ")"
    THEN SubSeq(formula, 1, Len(formula) - 1)
    ELSE formula

Subject(formula) == formula

\* .context("Couldn't build parser")
BuildError == Err("Couldn't build parser", <<>>)

\* .context(format!("Grammar could not parse input: {}", formula))
NoParseErrorBare(formula) == Err("Grammar could not parse input: ", <<>>)

NoParseError(formula) == Err("Grammar could not parse input: ", formula)

\* What the caller gets: with_parse_tree returns r; parse applies `?` to it
\* and returns the callback's own Result.
ReturnedOrDefault(op, r) ==
    IF op = "parse"
    THEN IF IsOk(r) /\ IsOk(r.val) THEN r.val ELSE Ok(True)
    ELSE r

Returned(op, r) == IF op = "parse" /\ IsOk(r) THEN r.val ELSE r

\* One call run from entry to return with nothing else running: whether and
\* on what the callback ran, what with_parse_tree returned, what the caller
\* got.
Run(g, op, formula, f) ==
    LET b == BuildParser(g)
        t == First(ParseInput(g, Subject(formula)))
        r == IF ~IsOk(b) THEN BuildError
             ELSE IF ~IsOk(t) THEN NoParseError(formula)
             ELSE Ok(Apply(f, t.val))
        ran == IsOk(b) /\ IsOk(t)
    IN  [fcalls |-> IF ran THEN 1 ELSE 0,
         farg |-> IF ran THEN t.val ELSE NoTree,
         inner |-> r,
         result |-> Returned(op, r)]

with_parse_tree(g, formula, f) == Run(g, "with_parse_tree", formula, f).result

parse(g, formula) == Run(g, "parse", formula, "parse_input").result

InFlight(c) == calls[c].pc \notin {"idle", "done"}

\* Parser::new
NewInverted ==
    /\ parser = None
    /\ parser' = LET g == GrammarFromStr(Text(grammarSrc))
                 IN  IF ~IsOk(g) THEN Ok([grammar |-> Text(grammarSrc)])
                     ELSE Err("Couldn't parse grammar", <<>>)
    /\ UNCHANGED <<grammarSrc, pool, slots, calls, nstarted>>

New ==
    /\ parser = None
    /\ parser' = LET g == GrammarFromStr(Text(grammarSrc))
                 IN  IF IsOk(g) THEN Ok([grammar |-> g.val])
                     ELSE Err("Couldn't parse grammar", <<>>)
    /\ UNCHANGED <<grammarSrc, pool, slots, calls, nstarted>>

\* A caller enters parse (which passes Formula::parse_input) or
\* with_parse_tree (the callers of the crate pass |_| ()) on the constructed
\* Parser.
Start(c) ==
    /\ IsOk(parser)
    /\ calls[c].pc = "idle"
    /\ \A d \in slots : d < c => calls[d].pc # "idle"
    /\ \E op \in {"parse", "with_parse_tree"}, f \in Callbacks, input \in Pool(pool) :
          /\ f = IF op = "parse" THEN "parse_input" ELSE "unit"
          /\ calls' = [d \in slots |->
                         IF d = c
                         THEN [Idle EXCEPT
                                 !.pc = "build", !.op = op, !.f = f,
                                 !.input = input,
                                 !.overlapped = \E e \in slots : InFlight(e)]
                         ELSE IF InFlight(d)
                              THEN [calls[d] EXCEPT !.overlapped = TRUE]
                              ELSE calls[d]]
    /\ nstarted' = nstarted + 1
    /\ UNCHANGED <<grammarSrc, pool, slots, parser>>

\* The call returns r from with_parse_tree; its locals are dropped.
Exit(call, r) ==
    [call EXCEPT !.inner = r, !.result = Returned(call.op, r),
                 !.built = None, !.parse_tree = NoTree, !.pc = "done"]

\* Where the locals of call c live: in its own frame.
FrameShared(c) == CHOOSE d \in slots : \A e \in slots : d <= e

Frame(c) == c

\* let parser = self.grammar.build_parser().context("Couldn't build parser")?;
\* The GrammarParser borrows self.grammar.
Build(c) ==
    /\ calls[c].pc = "build"
    /\ LET b == BuildParser(parser.val.grammar)
       IN  calls' = [calls EXCEPT ![c] =
                        IF IsOk(b)
                        THEN [@ EXCEPT !.built = Ok("GrammarParser"), !.pc = "parse"]
                        ELSE Exit(@, BuildError)]
    /\ UNCHANGED <<grammarSrc, pool, slots, parser, nstarted>>

\* let parse_tree = parser.parse_input(formula).next()
\*     .context(format!("Grammar could not parse input: {}", formula))?;
ParsePoisoning(c) ==
    /\ calls[c].pc = "parse"
    /\ IsOk(calls[c].built)
    /\ LET t == First(ParseInput(parser.val.grammar, Subject(calls[c].input)))
       IN  /\ calls' = IF IsOk(t)
                       THEN [calls EXCEPT ![Frame(c)].parse_tree = t.val,
                                          ![c].pc = "callback"]
                       ELSE [calls EXCEPT ![c] = Exit(@, NoParseError(calls[c].input))]
           /\ parser' = IF IsOk(t) THEN parser
                        ELSE Ok([grammar |-> Tail(parser.val.grammar)])
    /\ UNCHANGED <<grammarSrc, pool, slots, nstarted>>

Parse(c) ==
    /\ calls[c].pc = "parse"
    /\ IsOk(calls[c].built)
    /\ LET t == First(ParseInput(parser.val.grammar, Subject(calls[c].input)))
       IN  calls' = IF IsOk(t)
                    THEN [calls EXCEPT ![Frame(c)].parse_tree = t.val,
                                       ![c].pc = "callback"]
                    ELSE [calls EXCEPT ![c] = Exit(@, NoParseError(calls[c].input))]
    /\ UNCHANGED <<grammarSrc, pool, slots, parser, nstarted>>

\* Ok(f(&parse_tree))
Callback(c) ==
    /\ calls[c].pc = "callback"
    /\ LET tree == calls[Frame(c)].parse_tree
       IN  calls' = [calls EXCEPT ![c] =
                        Exit([@ EXCEPT !.fcalls = @ + 1, !.farg = tree],
                             Ok(Apply(calls[c].f, tree)))]
    /\ UNCHANGED <<grammarSrc, pool, slots, parser, nstarted>>

Next ==
    \/ New
    \/ \E c \in slots : Start(c)
    \/ \E c \in slots : Build(c)
    \/ \E c \in slots : Parse(c)
    \/ \E c \in slots : Callback(c)

InitWith(texts, inputs, n) ==
    /\ grammarSrc \in texts
    /\ pool = inputs
    /\ slots = 1..n
    /\ parser = None
    /\ calls = [c \in 1..n |-> Idle]
    /\ nstarted = 0

Init == InitWith({"grammar.bnf"}, "formulas", 1)

Spec == Init /\ [][Next]_vars

\* Any of the grammar texts, a few inputs, several calls on the one Parser.
InitAnyGrammar == InitWith(GrammarTexts, "small", MaxCalls)

SpecAnyGrammar == InitAnyGrammar /\ [][Next]_vars

(***************************************************************************)
(* Properties.                                                             *)
(***************************************************************************)
Done(c) == calls[c].pc = "done"

Rel_D(x) == Relation(<<"D">>, <<Var(x)>>)

ExpectedShape(input) ==
    CASE input = In_T -> True
      [] input = In_AndTT -> Connective("And", True, True)
      [] input = In_ExistsT -> Quantified("Exists", <<"x">>, True)
      [] input = In_RelDx -> Rel_D(<<"x">>)
      [] input = In_ForallF -> Quantified("Forall", <<"y">>, False)
      [] input = In_ForallRel -> Quantified("Forall", <<"y">>, Rel_D(<<"y">>))
      [] input = In_Drinker ->
            Quantified("Exists", <<"x">>,
                       Connective("Implies", Rel_D(<<"x">>),
                                  Quantified("Forall", <<"y">>, Rel_D(<<"y">>))))

\* C1: on each of the seven literal inputs of good_inputs_are_parsed the
\* grammar stage has a derivation (the callback runs, with_parse_tree returns
\* Ok) and parse returns Ok with the formula of exactly the expected shape.
C1_GoodInputsAreParsed ==
    \A c \in slots :
        Done(c) /\ calls[c].input \in GoodInputs =>
            /\ calls[c].fcalls = 1
            /\ IsOk(calls[c].inner)
            /\ calls[c].op = "with_parse_tree" => calls[c].result = Ok(Unit)
            /\ calls[c].op = "parse" =>
                  calls[c].result = Ok(ExpectedShape(calls[c].input))

C1_Witness ==
    \E c \in slots :
        /\ Done(c)
        /\ calls[c].op = "parse"
        /\ calls[c].input = In_Drinker
        /\ IsOk(calls[c].result)

\* C2: an input with mismatched parentheses, an unknown connective keyword or
\* an unquoted name has no derivation: the call returns the input-parse
\* error, the callback never runs and no formula is returned.
C2_Rejection ==
    \A c \in slots :
        Done(c) /\ calls[c].input \in Rejected =>
            /\ calls[c].result = NoParseError(calls[c].input)
            /\ calls[c].fcalls = 0

C2_Witness ==
    \E c \in slots :
        /\ Done(c)
        /\ calls[c].op = "parse"
        /\ calls[c].input \in Unquoted
        /\ ~IsOk(calls[c].result)

\* The operands b with input = "And (" + a + ") (" + b + ")".
RightOperands(input, a) ==
    LET n == Len(a) + 8
    IN  IF /\ Len(input) >= n + 1
           /\ SubSeq(input, 1, n) = <<"A", "n", "d", " ", "(">> \o a \o <<")", " ", "(">>
           /\ input[Len(input)] = ")"
        THEN {SubSeq(input, n + 1, Len(input) - 1)}
        ELSE {}

\* C3: when parse succeeds on a and on b, parse of "And (" + a + ") (" + b +
\* ")" returns And with parse(a) as the left and parse(b) as the right operand.
C3_Compositionality ==
    \A c \in slots :
        Done(c) /\ calls[c].op = "parse" =>
            \A a \in Operands :
                \A b \in RightOperands(calls[c].input, a) \cap Operands :
                    LET g == parser.val.grammar
                        pa == parse(g, a)
                        pb == parse(g, b)
                    IN  IsOk(pa) /\ IsOk(pb) =>
                            calls[c].result = Ok(Connective("And", pa.val, pb.val))

C3_Witness ==
    \E c \in slots :
        /\ Done(c)
        /\ calls[c].op = "parse"
        /\ calls[c].input = AndStr(In_RelDx, In_T)
        /\ IsOk(calls[c].result)

C5_GrammarIsParsable == parser # None => IsOk(parser)

C5_Witness == grammarSrc = "grammar.bnf" /\ parser # None

C7_CallbackOnce ==
    \A c \in slots :
        /\ calls[c].pc \in {"idle", "build", "parse", "callback"} =>
              calls[c].fcalls = 0
        /\ Done(c) =>
              LET ds == ParseInput(parser.val.grammar, calls[c].input)
              IN  IF IsOk(BuildParser(parser.val.grammar)) /\ Len(ds) > 0
                  THEN /\ calls[c].fcalls = 1
                       /\ calls[c].farg = ds[1]
                       /\ calls[c].inner = Ok(Apply(calls[c].f, ds[1]))
                  ELSE /\ calls[c].fcalls = 0
                       /\ ~IsOk(calls[c].inner)

C7_Witness ==
    \E c \in slots :
        /\ Done(c)
        /\ calls[c].op = "with_parse_tree"
        /\ grammarSrc = "ambiguous"
        /\ calls[c].input = In_T
        /\ calls[c].fcalls = 1

\* C8: parse returns Ok exactly when the grammar stage and the builder both
\* succeed; a grammar-stage error is returned as it is, the builder not run;
\* otherwise parse returns what the builder returned, error or formula.
C8_BothStages ==
    \A c \in slots :
        Done(c) /\ calls[c].op = "parse" =>
            /\ IsOk(calls[c].result) <=>
                  (IsOk(calls[c].inner) /\ IsOk(calls[c].inner.val))
            /\ ~IsOk(calls[c].inner) =>
                  /\ calls[c].result = calls[c].inner
                  /\ calls[c].fcalls = 0
            /\ IsOk(calls[c].inner) =>
                  /\ calls[c].fcalls = 1
                  /\ calls[c].result = Formula_parse_input(calls[c].farg)

C8_Witness ==
    \E c \in slots :
        /\ Done(c)
        /\ calls[c].op = "parse"
        /\ IsOk(calls[c].inner)
        /\ ~IsOk(calls[c].result)

Outcome(call) ==
    [fcalls |-> call.fcalls, farg |-> call.farg, inner |-> call.inner,
     result |-> call.result]

\* C9: no call changes the constructed Parser, and a call that runs after
\* other calls have returned, failed ones included, returns what it returns
\* as the first call on a Parser freshly constructed from the same text.
C9_FailureIsolation ==
    [][/\ parser # None => parser' = parser
       /\ \A c \in slots :
             /\ calls[c].pc # "done"
             /\ calls'[c].pc = "done"
             /\ ~calls'[c].overlapped
             => Outcome(calls'[c]) =
                    Run(GrammarFromStr(Text(grammarSrc)).val, calls'[c].op,
                        calls'[c].input, calls'[c].f)]_vars

C9_Witness ==
    \E c \in slots, d \in slots :
        /\ c < d
        /\ Done(c)
        /\ ~IsOk(calls[c].result)
        /\ Done(d)
        /\ ~calls[d].overlapped
        /\ IsOk(calls[d].result)

\* C10: a call during which other calls ran returns what it returns when it
\* runs alone, and the parse tree a call holds is a derivation of its own
\* input.
C10_Interleaving ==
    \A c \in slots :
        /\ calls[c].pc = "callback" =>
              TextOf(calls[c].parse_tree) = calls[c].input
        /\ Done(c) /\ calls[c].overlapped =>
              Outcome(calls[c]) =
                  Run(parser.val.grammar, calls[c].op, calls[c].input, calls[c].f)

C10_Witness ==
    \E c \in slots, d \in slots :
        /\ c # d
        /\ Done(c)
        /\ calls[c].overlapped
        /\ IsOk(calls[c].result)
        /\ Done(d)
        /\ calls[d].overlapped
        /\ calls[d].input # calls[c].input

====
